---- MODULE Spec2Model ----
(***************************************************************************)
(* Candle chart plotter of cipepser/plot (plotter/candlechart.go).         *)
(*                                                                         *)
(* One CandleChart value is tracked through its life: the zero value made  *)
(* by new(CandleChart), the call of NewCandleChart on it, and then any     *)
(* number of Plot, DataRange and rawTicks.Ticks calls.                     *)
(*                                                                         *)
(* float64 and vg.Length values are fixed-point numbers with one decimal   *)
(* digit: the model's integer n stands for n / 10 (see Fx).  Strings that  *)
(* the code inspects character by character (tick labels) are sequences    *)
(* of one-character strings.                                               *)
(***************************************************************************)
EXTENDS Integers, Sequences, FiniteSets

VARIABLES
    phase,    \* "new" (zero value), "built", "failed" (error returned), "panicked"
    data,     \* the argument NewCandleChart was called with
    candles,  \* cc.candles
    Min,      \* cc.Min
    Max,      \* cc.Max
    err,      \* the error NewCandleChart returned, "nil" for none
    last,     \* the call made last
    tr,       \* the transforms plt.Transforms gave to the call made last
    canvas,   \* the draw calls the canvas of the call made last received
    range,    \* the tuple the call made last returned, if it was DataRange
    rawtks,   \* what plot.DefaultTicks returned inside the last Ticks call
    tks       \* what the last Ticks call returned

vars == <<phase, data, candles, Min, Max, err, last, tr, canvas, range, rawtks, tks>>

---------------------------------------------------------------------------
(* Bounds of the explored inputs. *)

MaxPeriods == 2

MaxSamples == 2

MaxTicks == 1

MaxLabelLen == 3

---------------------------------------------------------------------------
(* Numbers. *)

\* A float64 with the value n, as a fixed-point number with one decimal.
Fx(n) == n * 10

MathMin(a, b) == IF a < b THEN a ELSE b

MathMax(a, b) == IF a > b THEN a ELSE b

SeqsUpTo(S, n) == UNION {[1..k -> S] : k \in 0..n}

Prices == {Fx(9), Fx(10), Fx(11)}

\* The two periods of the documented scenario.
ScenarioData ==
    << <<Fx(10), Fx(12), Fx(9), Fx(11)>>, <<Fx(11), Fx(10), Fx(13), Fx(9)>> >>

DataInputs == SeqsUpTo(SeqsUpTo(Prices, MaxSamples), MaxPeriods) \cup {ScenarioData}

---------------------------------------------------------------------------
(* Candle and Candles. *)

ErrEmptyInput == "length of data is 0, must have positive length."

NilCandle ==
    [X |-> 0, start |-> 0, end |-> 0, low |-> 0, high |-> 0, Color |-> "nil"]

RECURSIVE FoldLow(_, _)
FoldLow(low, d) ==
    IF d = <<>> THEN low ELSE FoldLow(MathMin(low, Head(d)), Tail(d))

RECURSIVE FoldHigh(_, _)
FoldHigh(high, d) ==
    IF d = <<>> THEN high ELSE FoldHigh(MathMax(high, Head(d)), Tail(d))

\* A plausible slip: >= where the code compares with >.
CandleColor_ge(start, end) == IF start >= end THEN "Black" ELSE "White"

CandleColor(start, end) == IF start > end THEN "Black" ELSE "White"

\* A plausible slip: the fold of low and high leaves out the last sample.
NewCandle_skipLast(x, d) ==
    IF Len(d) = 0
    THEN [c |-> NilCandle, err |-> ErrEmptyInput]
    ELSE [c |-> [X |-> x, start |-> d[1], end |-> d[Len(d)],
                 Color |-> CandleColor(d[1], d[Len(d)]),
                 low |-> FoldLow(d[1], SubSeq(d, 1, Len(d) - 1)),
                 high |-> FoldHigh(d[1], SubSeq(d, 1, Len(d) - 1))],
          err |-> "nil"]

NewCandle(x, d) ==
    IF Len(d) = 0
    THEN [c |-> NilCandle, err |-> ErrEmptyInput]
    ELSE [c |-> [X |-> x, start |-> d[1], end |-> d[Len(d)],
                 Color |-> CandleColor(d[1], d[Len(d)]),
                 low |-> FoldLow(d[1], d),
                 high |-> FoldHigh(d[1], d)],
          err |-> "nil"]

\* The loop of NewCandles from period i on, cs being the candles built so far.
RECURSIVE NewCandlesFrom(_, _, _)
NewCandlesFrom(d, i, cs) ==
    IF i > Len(d)
    THEN [cs |-> cs, err |-> "nil"]
    ELSE LET r == NewCandle(Fx(i - 1), d[i])
         IN  IF r.err # "nil"
             THEN [cs |-> <<>>, err |-> r.err]
             ELSE NewCandlesFrom(d, i + 1, Append(cs, r.c))

NewCandles(d) == NewCandlesFrom(d, 1, <<>>)

RECURSIVE ScanMax(_, _)
ScanMax(max, cs) ==
    IF cs = <<>> THEN max
    ELSE ScanMax(IF max < Head(cs).high THEN Head(cs).high ELSE max, Tail(cs))

getMax(cs) == ScanMax(cs[1].high, cs)

RECURSIVE ScanMin(_, _)
ScanMin(min, cs) ==
    IF cs = <<>> THEN min
    ELSE ScanMin(IF min > Head(cs).low THEN Head(cs).low ELSE min, Tail(cs))

\* A plausible slip: the low of the first candle is returned without the scan.
getMin_first(cs) == cs[1].low

getMin(cs) == ScanMin(cs[1].low, cs)

\* cs[0] of getMin and getMax is an index out of range on an empty slice.
IndexPanics(cs) == Len(cs) = 0

---------------------------------------------------------------------------
(* The chart's styles and the transforms a plot hands to Plot. *)

CandleStyle == [Color |-> "Black", Width |-> Fx(1)]

WhiskerStyle == [Color |-> "nil", Width |-> Fx(1)]

NoTransform == [ax |-> 0, bx |-> 0, ay |-> 0, by |-> 0]

\* position p -> 100p, price v -> 200 - 10v
ScenarioTr == [ax |-> 100, bx |-> 0, ay |-> -10, by |-> 200]

Transforms == {ScenarioTr, [ax |-> 20, bx |-> 5, ay |-> 3, by |-> 1]}

trX(t, v) == t.ax * v + Fx(t.bx)

trY(t, v) == t.ay * v + Fx(t.by)

---------------------------------------------------------------------------
(* Plot.  ClipPolygonY and ClipLinesY are the canvas's own primitives: a   *)
(* draw call records which one was applied and the paths handed to it.     *)
(* The field candle is the index of the loop iteration that issued it.     *)

Pt(x, y) == [X |-> x, Y |-> y]

\* A plausible slip: the full width on each side in place of w/2.
BodyPath_fullWidth(x, w, q1, q3) ==
    << Pt(x - w, q1), Pt(x - w, q3), Pt(x + w, q3), Pt(x + w, q1),
       Pt(x - w - (CandleStyle.Width \div 2), q1) >>

BodyPath(x, w, q1, q3) ==
    << Pt(x - (w \div 2), q1),
       Pt(x - (w \div 2), q3),
       Pt(x + (w \div 2), q3),
       Pt(x + (w \div 2), q1),
       Pt(x - (w \div 2) - (CandleStyle.Width \div 2), q1) >>

WhiskerPaths(x, q1, q3, l, h) ==
    << <<Pt(x, q3), Pt(x, h)>>,
       <<Pt(x, h), Pt(x, h)>>,
       <<Pt(x, q1), Pt(x, l)>>,
       <<Pt(x, l), Pt(x, l)>> >>

FillBody(i, candle, pts) ==
    [op |-> "FillPolygon", candle |-> i, clip |-> "ClipPolygonY",
     style |-> [Color |-> candle.Color, Width |-> 0], paths |-> <<pts>>]

StrokeBody(i, pts) ==
    [op |-> "StrokeLines", candle |-> i, clip |-> "ClipLinesY",
     style |-> CandleStyle, paths |-> <<pts>>]

StrokeWhiskers(i, whisks) ==
    [op |-> "StrokeLines", candle |-> i, clip |-> "ClipLinesY",
     style |-> WhiskerStyle, paths |-> whisks]

\* A plausible slip: the whiskers are stroked before the body is drawn.
DrawCandle_whiskersFirst(i, candle, w, t) ==
    LET x   == trX(t, candle.X)
        l   == trY(t, candle.low)
        h   == trY(t, candle.high)
        q1  == IF candle.start < candle.end
               THEN trY(t, candle.start) ELSE trY(t, candle.end)
        q3  == IF candle.start < candle.end
               THEN trY(t, candle.end) ELSE trY(t, candle.start)
        pts == BodyPath(x, w, q1, q3)
    IN  << StrokeWhiskers(i, WhiskerPaths(x, q1, q3, l, h)),
           FillBody(i, candle, pts),
           StrokeBody(i, pts) >>

\* One iteration of the loop of Plot: the draw calls for candle number i.
DrawCandle(i, candle, w, t) ==
    LET x   == trX(t, candle.X)
        l   == trY(t, candle.low)
        h   == trY(t, candle.high)
        q1  == IF candle.start < candle.end
               THEN trY(t, candle.start) ELSE trY(t, candle.end)
        q3  == IF candle.start < candle.end
               THEN trY(t, candle.end) ELSE trY(t, candle.start)
        pts == BodyPath(x, w, q1, q3)
    IN  << FillBody(i, candle, pts),
           StrokeBody(i, pts),
           StrokeWhiskers(i, WhiskerPaths(x, q1, q3, l, h)) >>

RECURSIVE DrawFrom(_, _, _, _)
DrawFrom(cs, i, w, t) ==
    IF i > Len(cs) THEN <<>>
    ELSE DrawCandle(i - 1, cs[i], w, t) \o DrawFrom(cs, i + 1, w, t)

\* A plausible slip: the guard lets a single candle through (width 0).
PlotCalls_guardOne(cs, t) ==
    IF Len(cs) < 1 THEN <<>>
    ELSE DrawFrom(cs, 1, IF Len(cs) < 2 THEN 0
                         ELSE trX(t, cs[2].X) - trX(t, cs[1].X), t)

\* The draw calls of one Plot call on the candles cs under the transforms t.
PlotCalls(cs, t) ==
    IF Len(cs) < 2 THEN <<>>
    ELSE DrawFrom(cs, 1, trX(t, cs[2].X) - trX(t, cs[1].X), t)

\* A plausible slip: 1.1, the factor the caller uses for the X axis.
DataRangeOf_factor11(cs, min, max) == <<0, 11 * Len(cs), min, max>>

\* float64(len(cc.candles)) * 1.3, in tenths.
DataRangeOf(cs, min, max) == <<0, 13 * Len(cs), min, max>>

DataRange == DataRangeOf(candles, Min, Max)

---------------------------------------------------------------------------
(* Tick labels: strconv.ParseFloat and strconv.FormatFloat(s, 'f', 0, 64)  *)
(* on labels made of digits, '.', '+' and '-'.  A parsed number is         *)
(* (-1)^neg * mant / 10^frac.                                              *)

Digits == <<"0", "1", "2", "3", "4", "5", "6", "7", "8", "9">>

IsDigit(c) == \E d \in 1..10 : Digits[d] = c

DigitVal(c) == (CHOOSE d \in 1..10 : Digits[d] = c) - 1

RECURSIVE Pow10(_)
Pow10(k) == IF k = 0 THEN 1 ELSE 10 * Pow10(k - 1)

\* The number a sequence of digits spells, the other characters being skipped.
RECURSIVE DigitsToNat(_, _)
DigitsToNat(acc, s) ==
    IF s = <<>> THEN acc
    ELSE IF IsDigit(Head(s)) THEN DigitsToNat(10 * acc + DigitVal(Head(s)), Tail(s))
    ELSE DigitsToNat(acc, Tail(s))

RECURSIVE NatToDigits(_)
NatToDigits(n) ==
    IF n < 10 THEN <<Digits[n + 1]>>
    ELSE NatToDigits(n \div 10) \o <<Digits[(n % 10) + 1]>>

FloatZero == [neg |-> FALSE, mant |-> 0, frac |-> 0]

\* strconv.ParseFloat: an optional sign, digits with at most one '.', at
\* least one digit; anything else is a syntax error and the value is 0.
ParseFloat(s) ==
    LET signed == s # <<>> /\ s[1] \in {"+", "-"}
        body   == IF signed THEN Tail(s) ELSE s
        dots   == {i \in 1..Len(body) : body[i] = "."}
        ok     == /\ Cardinality(dots) <= 1
                  /\ \A i \in 1..Len(body) : body[i] = "." \/ IsDigit(body[i])
                  /\ \E i \in 1..Len(body) : IsDigit(body[i])
    IN  IF ~ok THEN [f |-> FloatZero, err |-> "syntax"]
        ELSE [f |-> [neg  |-> signed /\ s[1] = "-",
                     mant |-> DigitsToNat(0, body),
                     frac |-> IF dots = {} THEN 0
                              ELSE Len(body) - (CHOOSE i \in dots : TRUE)],
              err |-> "nil"]

\* strconv.FormatFloat(f, 'f', 0, 64): the nearest integer, a tie going to
\* the even one, with the sign kept (also that of a zero).
FormatFloat(f) ==
    LET p == Pow10(f.frac)
        q == f.mant \div p
        r == f.mant % p
        n == IF 2 * r > p THEN q + 1
             ELSE IF 2 * r = p THEN q + (q % 2)
             ELSE q
    IN  (IF f.neg THEN <<"-">> ELSE <<>>) \o NatToDigits(n)

\* Lines 248-249: the label parsed, the error dropped, and formatted again.
RewriteLabel(label) == FormatFloat(ParseFloat(label).f)

\* A plausible slip: the test for an empty label is missing.
Ticks_noSkip(raw) ==
    [i \in 1..Len(raw) |-> [raw[i] EXCEPT !.Label = RewriteLabel(@)]]

\* rawTicks.Ticks, raw being what plot.DefaultTicks returned.
Ticks(raw) ==
    [i \in 1..Len(raw) |->
        IF raw[i].Label = <<>> THEN raw[i]
        ELSE [raw[i] EXCEPT !.Label = RewriteLabel(@)]]

Tick(v, label) == [Value |-> v, Label |-> label]

LabelChars == {"0", "5", ".", "-"}

Labels == SeqsUpTo(LabelChars, MaxLabelLen)

\* Tick lists a tick generator may return: ticks with any label.
GeneratedTicks == SeqsUpTo({Tick(Fx(5), l) : l \in Labels}, MaxTicks)

\* The tick list used next to a chart: major ticks around an unlabelled one.
ChartTicks ==
    { << Tick(Fx(3), <<"3", ".", "0">>), Tick(35, <<>>), Tick(Fx(4), <<"4">>) >> }

\* Major ticks with decimal labels between unlabelled minor ticks.
TickFixtures ==
    ChartTicks \cup
    { << Tick(Fx(9), <<"9", ".", "0">>), Tick(Fx(10), <<>>), Tick(Fx(11), <<"1", "1">>),
         Tick(Fx(12), <<>>), Tick(Fx(13), <<"1", "3", ".", "0">>) >>,
      << Tick(-25, <<"-", "2", ".", "5">>), Tick(0, <<>>), Tick(25, <<"+", "2", ".", "5">>) >> }

TickInputs == GeneratedTicks \cup TickFixtures

---------------------------------------------------------------------------
(* The calls. *)

Init ==
    /\ phase = "new"
    /\ data = <<>>
    /\ candles = <<>>
    /\ Min = 0
    /\ Max = 0
    /\ err = "nil"
    /\ last = "none"
    /\ tr = NoTransform
    /\ canvas = <<>>
    /\ range = <<>>
    /\ rawtks = <<>>
    /\ tks = <<>>

\* NewCandleChart(d): an error of NewCandles is returned with a nil chart;
\* otherwise getMin and getMax run on the candles, which panics on none.
NewCandleChart ==
    /\ phase = "new"
    /\ \E d \in DataInputs :
         LET r == NewCandles(d)
         IN  /\ data' = d
             /\ IF r.err # "nil"
                THEN /\ phase' = "failed"
                     /\ err' = r.err
                     /\ UNCHANGED <<candles, Min, Max>>
                ELSE IF IndexPanics(r.cs)
                THEN /\ phase' = "panicked"
                     /\ candles' = r.cs
                     /\ UNCHANGED <<err, Min, Max>>
                ELSE /\ phase' = "built"
                     /\ candles' = r.cs
                     /\ Min' = getMin(r.cs)
                     /\ Max' = getMax(r.cs)
                     /\ UNCHANGED err
    /\ last' = "NewCandleChart"
    /\ tr' = NoTransform
    /\ canvas' = <<>>
    /\ range' = <<>>
    /\ rawtks' = <<>>
    /\ tks' = <<>>

\* A plausible slip: the loop ranges over pointers and orders start and end
\* of each candle in place.
Plot_ordersInPlace ==
    /\ phase \in {"new", "built"}
    /\ \E t \in Transforms :
         /\ tr' = t
         /\ canvas' = PlotCalls(candles, t)
    /\ candles' = [i \in 1..Len(candles) |->
                     [candles[i] EXCEPT !.start = MathMin(candles[i].start, candles[i].end),
                                        !.end = MathMax(candles[i].start, candles[i].end)]]
    /\ last' = "Plot"
    /\ range' = <<>>
    /\ rawtks' = <<>>
    /\ tks' = <<>>
    /\ UNCHANGED <<phase, data, Min, Max, err>>

\* cc.Plot(c, plt) on a fresh canvas c.
Plot ==
    /\ phase \in {"new", "built"}
    /\ \E t \in Transforms :
         /\ tr' = t
         /\ canvas' = PlotCalls(candles, t)
    /\ last' = "Plot"
    /\ range' = <<>>
    /\ rawtks' = <<>>
    /\ tks' = <<>>
    /\ UNCHANGED <<phase, data, candles, Min, Max, err>>

\* cc.DataRange()
DataRangeCall ==
    /\ phase \in {"new", "built"}
    /\ range' = DataRange
    /\ last' = "DataRange"
    /\ tr' = NoTransform
    /\ canvas' = <<>>
    /\ rawtks' = <<>>
    /\ tks' = <<>>
    /\ UNCHANGED <<phase, data, candles, Min, Max, err>>

\* rawTicks{}.Ticks(min, max) with plot.DefaultTicks returning raw.
TicksOn(raw) ==
    /\ rawtks' = raw
    /\ tks' = Ticks(raw)
    /\ last' = "Ticks"
    /\ tr' = NoTransform
    /\ canvas' = <<>>
    /\ range' = <<>>
    /\ UNCHANGED <<phase, data, candles, Min, Max, err>>

TicksCall ==
    /\ phase # "panicked"
    /\ \E raw \in ChartTicks : TicksOn(raw)

Next == NewCandleChart \/ Plot \/ DataRangeCall \/ TicksCall

Spec == Init /\ [][Next]_vars

(* The tick post-processor alone: the generator's output is drawn at the   *)
(* start and Ticks is applied to it.                                       *)

InitTicks ==
    /\ phase = "new"
    /\ data = <<>>
    /\ candles = <<>>
    /\ Min = 0
    /\ Max = 0
    /\ err = "nil"
    /\ last = "none"
    /\ tr = NoTransform
    /\ canvas = <<>>
    /\ range = <<>>
    /\ rawtks \in TickInputs
    /\ tks = <<>>

TicksApply == last = "none" /\ TicksOn(rawtks)

NextTicks == TicksApply

SpecTicks == InitTicks /\ [][NextTicks]_vars

---------------------------------------------------------------------------
(* Properties. *)

SetMin(S) == CHOOSE m \in S : \A x \in S : m <= x

SetMax(S) == CHOOSE m \in S : \A x \in S : m >= x

Samples(d) == {d[k] : k \in 1..Len(d)}

HasEmptyPeriod(d) == d = <<>> \/ \E i \in 1..Len(d) : d[i] = <<>>

\* C1: building fails with the empty-input error, and returns no chart,
\* whenever the list of periods is empty or some period has no sample; and
\* building over a non-empty list of non-empty periods never fails.
C1_EmptyInputIsAnError ==
    phase # "new" =>
        /\ HasEmptyPeriod(data) =>
               phase = "failed" /\ err = ErrEmptyInput /\ candles = <<>>
        /\ ~HasEmptyPeriod(data) => phase = "built" /\ err = "nil"

\* C2: each candle has open = first sample, close = last sample, low = the
\* least and high = the greatest sample of its period, so that
\* low <= min(open, close) and high >= max(open, close).
C2_CandleSummarisesPeriod ==
    phase = "built" =>
        /\ Len(candles) = Len(data)
        /\ \A i \in 1..Len(candles) :
             LET c == candles[i]
                 d == data[i]
             IN  /\ c.start = d[1]
                 /\ c.end = d[Len(d)]
                 /\ c.low = SetMin(Samples(d))
                 /\ c.high = SetMax(Samples(d))
                 /\ c.low <= MathMin(c.start, c.end)
                 /\ c.high >= MathMax(c.start, c.end)

\* A built candle whose low and high both lie strictly outside open and close.
C2_Witness ==
    /\ phase = "built"
    /\ \E i \in 1..Len(candles) :
         /\ candles[i].low < MathMin(candles[i].start, candles[i].end)
         /\ candles[i].high > MathMax(candles[i].start, candles[i].end)
         /\ candles[i].start # candles[i].end

\* C3: a candle is down (black) exactly when open > close; a candle with
\* open = close or open < close is up (white).
C3_DownIffOpenAboveClose ==
    phase = "built" =>
        \A i \in 1..Len(candles) :
            LET d == data[i]
            IN  /\ candles[i].Color \in {"Black", "White"}
                /\ candles[i].Color = "Black" <=> d[1] > d[Len(d)]

\* A built chart with a candle of equal open and close (white) and a falling one.
C3_Witness ==
    /\ phase = "built"
    /\ \E i, j \in 1..Len(candles) :
         /\ candles[i].start = candles[i].end /\ candles[i].Color = "White"
         /\ candles[j].start > candles[j].end /\ candles[j].Color = "Black"

\* C4: for a built, non-empty collection the cached Min is the least low
\* and the cached Max the greatest high over all candles.
C4_MinMaxOverCandles ==
    (phase = "built" /\ candles # <<>>) =>
        /\ Min = SetMin({candles[i].low : i \in 1..Len(candles)})
        /\ Max = SetMax({candles[i].high : i \in 1..Len(candles)})

\* A built chart whose extremes are not those of its first candle.
C4_Witness ==
    /\ phase = "built"
    /\ Len(candles) >= 2
    /\ Min < candles[1].low
    /\ Max > candles[1].high

\* C5: DataRange on n candles returns xMin = 0 and xMax = 1.3 * n, with
\* yMin the least low and yMax the greatest high, unpadded; for the
\* documented periods it returns (0, 2.6, 9, 13).
C5_DataRange ==
    (phase = "built" /\ last = "DataRange") =>
        /\ Len(range) = 4
        /\ range[1] = 0
        /\ 10 * range[2] = 13 * Fx(Len(data))
        /\ range[3] = SetMin(UNION {Samples(data[i]) : i \in 1..Len(data)})
        /\ range[4] = SetMax(UNION {Samples(data[i]) : i \in 1..Len(data)})
        /\ data = ScenarioData => range = <<0, 26, Fx(9), Fx(13)>>

\* DataRange has returned for the documented periods.
C5_Witness ==
    /\ phase = "built"
    /\ last = "DataRange"
    /\ data = ScenarioData
    /\ range = <<0, 26, Fx(9), Fx(13)>>

\* C6: Plot on a collection of 0 or 1 candles issues no draw call and
\* raises no error.
C6_PlotBelowTwoIsNoOp ==
    (last = "Plot" /\ Len(candles) < 2) =>
        /\ canvas = <<>>
        /\ phase \in {"new", "built"}
        /\ err = "nil"

\* Plot has run on a built chart of exactly one candle.
C6_Witness ==
    /\ last = "Plot"
    /\ phase = "built"
    /\ Len(candles) = 1

\* The documented scenario has been rendered.
ScenarioPlotted ==
    /\ phase = "built"
    /\ data = ScenarioData
    /\ last = "Plot"
    /\ tr = ScenarioTr

\* The corners of a body path (its first four points).
CornerXs(path) == {path[k].X : k \in 1..4}

CornerYs(path) == {path[k].Y : k \in 1..4}

\* C7 as stated: in the documented scenario the body of candle 0 is centred
\* at x = 100 and spans X [95, 105], with Y bounds 90 and 100.
C7_BodyOfCandle0_AsStated ==
    ScenarioPlotted =>
        LET call == canvas[1]
            path == call.paths[1]
        IN  /\ call.op = "FillPolygon" /\ call.candle = 0
            /\ CornerXs(path) = {Fx(95), Fx(105)}
            /\ SetMin(CornerXs(path)) + SetMax(CornerXs(path)) = 2 * Fx(100)
            /\ CornerYs(path) = {Fx(90), Fx(100)}

\* C7 as amended: in the documented scenario the body of candle 0 is
\* centred at x = 0, the transform of its position 0, and spans X [-50, 50],
\* half the width 100 on each side, the closing point lying at -50.5; its
\* Y bounds are transform(11) = 90 and transform(10) = 100.
C7_BodyOfCandle0 ==
    ScenarioPlotted =>
        LET call == canvas[1]
            path == call.paths[1]
        IN  /\ call.op = "FillPolygon" /\ call.candle = 0
            /\ trX(tr, Fx(1)) - trX(tr, Fx(0)) = Fx(100)
            /\ Len(path) = 5
            /\ CornerXs(path) = {Fx(-50), Fx(50)}
            /\ SetMin(CornerXs(path)) + SetMax(CornerXs(path)) = 2 * trX(tr, candles[1].X)
            /\ trX(tr, candles[1].X) = 0
            /\ path[5] = Pt(Fx(-50) - 5, Fx(100))
            /\ CornerYs(path) = {Fx(90), Fx(100)}
            /\ trY(tr, Fx(11)) = Fx(90) /\ trY(tr, Fx(10)) = Fx(100)

\* The documented scenario rendered, with draw calls on the canvas.
C7_Witness == ScenarioPlotted /\ canvas # <<>>

IsIntegerNumeral(s) ==
    LET body == IF s # <<>> /\ s[1] = "-" THEN Tail(s) ELSE s
    IN  /\ body # <<>>
        /\ \A k \in 1..Len(body) : IsDigit(body[k])
        /\ Len(body) > 1 => body[1] # "0"

\* out is the integer display of the number the label in parses to: an
\* integer numeral nearest to it, of the same sign; 0 for a label that does
\* not parse.
IsZeroDecimalOf(out, in) ==
    LET p    == ParseFloat(in)
        neg  == out[1] = "-"
        n    == DigitsToNat(0, out)
        unit == Pow10(p.f.frac)
        diff == n * unit - p.f.mant
    IN  /\ IsIntegerNumeral(out)
        /\ p.err # "nil" => out = <<"0">>
        /\ neg = p.f.neg
        /\ 2 * diff <= unit
        /\ 2 * diff >= -unit

\* C8: Ticks leaves every tick with an empty label unchanged and replaces
\* every other label by the integer display of the number it parses to, so
\* that "3.0" becomes "3"; a label already in integer display is returned as
\* it is, and rewriting a rewritten label changes nothing.
C8_TickLabels ==
    last = "Ticks" =>
        /\ Len(tks) = Len(rawtks)
        /\ \A i \in 1..Len(tks) :
             LET in  == rawtks[i]
                 out == tks[i]
             IN  /\ out.Value = in.Value
                 /\ in.Label = <<>> => out = in
                 /\ in.Label # <<>> =>
                        /\ IsZeroDecimalOf(out.Label, in.Label)
                        /\ RewriteLabel(out.Label) = out.Label
                 /\ in.Label = <<"3", ".", "0">> => out.Label = <<"3">>
                 /\ IsIntegerNumeral(in.Label) => out.Label = in.Label

\* Ticks has rewritten "3.0" to "3" next to a tick with an empty label.
C8_Witness ==
    /\ last = "Ticks"
    /\ \E i, j \in 1..Len(tks) :
         /\ rawtks[i].Label = <<"3", ".", "0">> /\ tks[i].Label = <<"3">>
         /\ rawtks[j].Label = <<>> /\ tks[j] = rawtks[j]

\* C9: for n >= 2 candles one Plot call draws candle by candle in
\* collection order, and for each candle in the order fill body, stroke
\* body outline, stroke whiskers.
C9_DrawOrder ==
    (last = "Plot" /\ Len(candles) >= 2) =>
        /\ Len(canvas) = 3 * Len(candles)
        /\ \A j, k \in 1..Len(canvas) : j < k => canvas[j].candle <= canvas[k].candle
        /\ \A i \in 1..Len(candles) :
             LET fill   == canvas[3 * i - 2]
                 box    == canvas[3 * i - 1]
                 whisks == canvas[3 * i]
             IN  /\ fill.op = "FillPolygon"
                 /\ fill.candle = i - 1
                 /\ fill.style.Color = candles[i].Color
                 /\ Len(fill.paths[1]) = 5
                 /\ box.op = "StrokeLines"
                 /\ box.candle = i - 1
                 /\ box.style = CandleStyle
                 /\ box.paths = fill.paths
                 /\ whisks.op = "StrokeLines"
                 /\ whisks.candle = i - 1
                 /\ whisks.style = WhiskerStyle
                 /\ Len(whisks.paths) = 4
                 /\ \A k \in 1..4 : Len(whisks.paths[k]) = 2

\* Plot has drawn a chart of at least two candles.
C9_Witness ==
    /\ last = "Plot"
    /\ Len(candles) >= 2
    /\ Len(canvas) >= 6

\* C10: once the chart is built, no Plot, DataRange or Ticks call changes
\* the candles or the cached Min and Max, so DataRange keeps returning the
\* same tuple.
C10_CallsKeepCollection ==
    [][phase = "built" =>
          /\ candles' = candles
          /\ Min' = Min
          /\ Max' = Max
          /\ DataRange' = DataRange]_vars

\* A built chart with a falling candle has been rendered.
C10_Witness ==
    /\ phase = "built"
    /\ last = "Plot"
    /\ canvas # <<>>
    /\ \E i \in 1..Len(candles) : candles[i].start > candles[i].end

====
